---------------------------- MODULE Spec2Model ----------------------------
(***************************************************************************)
(* download_yt.py: parse one URL argument, make sure the directory         *)
(* "downloads" exists, assemble the options of the download engine, and    *)
(* call the engine's download once inside a `with` block.                  *)
(*                                                                         *)
(* The script is modelled statement by statement (one action per           *)
(* statement).  The file system is shared by all invocations; everything   *)
(* else is per invocation (a function over Procs).  The engine (yt_dlp) is *)
(* not part of the repository: its steps (EngineExtract, EngineItem,       *)
(* EngineReturn) follow the contract the specification gives for it.       *)
(***************************************************************************)
EXTENDS Integers, Sequences, FiniteSets, TLC

VARIABLES
    dirKind,        \* what the path "downloads" is: "absent", "dir" or "file"
    parentWritable, \* whether the working directory permits creating entries
    files,          \* the paths of the files under downloads/
    files0,         \* the files present before any invocation started
    argv,           \* argv[p]: the command-line arguments after the program name
    pc,             \* pc[p]: the statement invocation p executes next
    exit_status,    \* exit_status[p]: -1 while running, else the exit status
    youtube_url,    \* youtube_url[p]: line 9
    cli_defaults,   \* cli_defaults[p]: lines 14-19
    ydl_opts,       \* ydl_opts[p]: lines 21-36
    engine,         \* engine[p]: the YoutubeDL object of invocation p
    created,        \* created[p]: this invocation's makedirs created the directory
    added,          \* added[p]: the paths this invocation's engine wrote
    merges,         \* merges[p]: how many times the configuration was assembled
    prev_opts,      \* prev_opts[p]: the configuration of the previous assembly
    defaults0       \* defaults0[p]: cli_defaults as first written

vars == <<dirKind, parentWritable, files, files0, argv, pc, exit_status,
          youtube_url, cli_defaults, ydl_opts, engine, created, added,
          merges, prev_opts, defaults0>>

Procs == {1, 2}

\* The largest number of entries of a playlist, and of post-processing steps
\* in a reliability-defaults mapping.
MaxItems == 2
MaxPP == 2

-----------------------------------------------------------------------------
(* Values *)

NoMapping == [k \in {} |-> ""]

URLs == {"video", "playlist"}

HelpFlag == "-h"

\* args.url when the positional argument is missing and the parser let it pass
NoneUrl == "None"

OUTPUT_DIRECTORY == "downloads"

Mp3Step ==
    [key |-> "FFmpegExtractAudio", preferredcodec |-> "mp3", preferredquality |-> "0"]

\* cli_defaults without the error-tolerance mode (the engine's API default)
CliDefaultsStrict ==
    [fragment_retries |-> 10,
     retries |-> 10,
     warn_when_outdated |-> TRUE]

CliDefaults ==
    [fragment_retries |-> 10,
     ignoreerrors |-> "only_download",
     retries |-> 10,
     warn_when_outdated |-> TRUE]

OutTmpl ==
    <<OUTPUT_DIRECTORY, "/", "%(uploader)s", " - ", "%(title)s", ".", "%(ext)s">>

\* dict.get(key, default)
Get(d, k, default) == IF k \in DOMAIN d THEN d[k] ELSE default

\* {**s, **d}: the settings written first, the defaults unpacked after them
MergeFirstWins(d, s) ==
    [k \in (DOMAIN d) \cup (DOMAIN s) |-> IF k \in DOMAIN d THEN d[k] ELSE s[k]]

\* {**d, **s}: the later mapping wins on a key of both
Merge(d, s) ==
    [k \in (DOMAIN d) \cup (DOMAIN s) |-> IF k \in DOMAIN s THEN s[k] ELSE d[k]]

\* The settings with 'postprocessors' set to the audio step alone
FormatOutputSettingsAlone(d) ==
    [format |-> "bestaudio/best",
     postprocessors |-> <<Mp3Step>>,
     outtmpl |-> OutTmpl]

\* The keys written after **cli_defaults in the dict display of lines 21-36
FormatOutputSettings(d) ==
    [format |-> "bestaudio/best",
     postprocessors |-> <<Mp3Step>> \o Get(d, "postprocessors", <<>>),
     outtmpl |-> OutTmpl]

BuildOpts(d) == Merge(d, FormatOutputSettings(d))

\* cli_defaults.update({...}); ydl_opts = cli_defaults: assembly in place
AssembleStepInPlace(d) == [opts |-> BuildOpts(d), defaults |-> BuildOpts(d)]

\* The assembly statement: the new ydl_opts and what it leaves in cli_defaults
AssembleStep(d) == [opts |-> BuildOpts(d), defaults |-> d]

\* the positional argument declared optional (nargs='?')
ParseOkOptional(a) == Len(a) <= 1 /\ \A i \in 1..Len(a) : a[i] # HelpFlag

\* parser.parse_args() with one required positional argument: exactly one
\* argument, and not the help flag the parser adds by default
ParseOk(a) == Len(a) = 1 /\ a[1] # HelpFlag

\* The status parse_args exits with: 0 after printing help, 2 on a usage error
ParseExit(a) == IF \E i \in 1..Len(a) : a[i] = HelpFlag THEN 0 ELSE 2

ArgsUrl(a) == IF Len(a) >= 1 THEN a[1] ELSE NoneUrl

\* os.makedirs(OUTPUT_DIRECTORY) without exist_ok
makedirs_no_exist_ok(kind, writable) ==
    CASE kind = "dir"    -> [kind |-> "dir", err |-> "FileExistsError"]
      [] kind = "file"   -> [kind |-> "file", err |-> "FileExistsError"]
      [] kind = "absent" -> IF writable
                            THEN [kind |-> "dir", err |-> "none"]
                            ELSE [kind |-> "absent", err |-> "PermissionError"]

\* os.makedirs inside try/except OSError: pass
makedirs_swallowed(kind, writable) ==
    CASE kind = "dir"    -> [kind |-> "dir", err |-> "none"]
      [] kind = "file"   -> [kind |-> "file", err |-> "none"]
      [] kind = "absent" -> IF writable
                            THEN [kind |-> "dir", err |-> "none"]
                            ELSE [kind |-> "absent", err |-> "none"]

\* os.makedirs(OUTPUT_DIRECTORY, exist_ok=True) on a one-component path:
\* mkdir, and on EEXIST no error if the path is a directory
makedirs(kind, writable) ==
    CASE kind = "dir"    -> [kind |-> "dir", err |-> "none"]
      [] kind = "file"   -> [kind |-> "file", err |-> "FileExistsError"]
      [] kind = "absent" -> IF writable
                            THEN [kind |-> "dir", err |-> "none"]
                            ELSE [kind |-> "absent", err |-> "PermissionError"]

\* ydl.download([youtube_url])
DownloadArgs(url) == <<url>>

\* the with block inside try/except Exception: pass
ExitStatusSwallowed(outcome) == 0

\* ydl = YoutubeDL(...); ydl.download(...); ydl.close(): no with statement
ReleasedOnReturnOnly(outcome) == outcome = "returned"

\* How the interpreter ends after the with block: an exception nobody catches
\* ends the process with status 1
ExitStatusOf(outcome) == IF outcome = "raised" THEN 1 ELSE 0

\* The with statement calls __exit__ however the block ends
ReleasedOn(outcome) == outcome \in {"returned", "raised"}

-----------------------------------------------------------------------------
(* The engine, from its contract *)

Metas ==
    {[uploader |-> "A", title |-> "t1", ext |-> "webm"],
     [uploader |-> "A", title |-> "t2", ext |-> "webm"]}

SeqsUpTo(S, n) == UNION {[1..k -> S] : k \in 1..n}

\* What a URL can resolve to: one item, or the entries of a playlist
EntriesOf(url) ==
    IF url = "playlist" THEN SeqsUpTo(Metas, MaxItems) ELSE SeqsUpTo(Metas, 1)

\* The extension after post-processing: the audio extractor's target codec
FinalExt(opts, meta) ==
    LET pps == Get(opts, "postprocessors", <<>>)
        ex  == {i \in 1..Len(pps) : pps[i].key = "FFmpegExtractAudio"}
    IN  IF ex = {} THEN meta.ext
        ELSE pps[CHOOSE i \in ex : \A j \in ex : i <= j].preferredcodec

\* The output template with the item's fields filled in
Interpolate(tmpl, meta, ext) ==
    [i \in 1..Len(tmpl) |->
        CASE tmpl[i] = "%(uploader)s" -> meta.uploader
          [] tmpl[i] = "%(title)s"    -> meta.title
          [] tmpl[i] = "%(ext)s"      -> ext
          [] OTHER                    -> tmpl[i]]

OutPath(opts, meta) == Interpolate(opts["outtmpl"], meta, FinalExt(opts, meta))

\* ignoreerrors: a per-item download error is skipped unless the mode is off
Tolerates(opts) == Get(opts, "ignoreerrors", "False") \in {"only_download", "True"}

NewEngine ==
    [scope |-> "none", calls |-> <<>>, entries |-> <<>>, results |-> <<>>,
     outputs |-> {}, outcome |-> "none", error |-> "none"]

-----------------------------------------------------------------------------
(* Initial states *)

PreExisting ==
    {<<OUTPUT_DIRECTORY, "/", "A", " - ", "t1", ".", "mp3">>,
     <<OUTPUT_DIRECTORY, "/", "old.txt">>}

Argvs == {<<>>, <<HelpFlag>>, <<"video", "playlist">>} \cup {<<u>> : u \in URLs}

InitFs ==
    /\ dirKind \in {"absent", "dir", "file"}
    /\ parentWritable \in BOOLEAN
    /\ files0 \in IF dirKind = "dir" THEN SUBSET PreExisting ELSE {{}}
    /\ files = files0

InitRest ==
    /\ ydl_opts = [p \in Procs |-> NoMapping]
    /\ prev_opts = [p \in Procs |-> NoMapping]
    /\ merges = [p \in Procs |-> 0]
    /\ engine = [p \in Procs |-> NewEngine]
    /\ created = [p \in Procs |-> FALSE]
    /\ added = [p \in Procs |-> {}]

InitProc(started) ==
    /\ pc = [p \in Procs |-> IF p \in started THEN "parse_args" ELSE "idle"]
    /\ exit_status = [p \in Procs |-> -1]
    /\ youtube_url = [p \in Procs |-> NoneUrl]
    /\ cli_defaults = [p \in Procs |-> CliDefaults]
    /\ defaults0 = cli_defaults
    /\ InitRest

\* Two invocations started in the same working directory
InitConc ==
    /\ InitFs
    /\ argv \in [Procs -> Argvs]
    /\ InitProc(Procs)

\* The reliability-defaults mappings the assembly is tried on: the script's own,
\* and mappings with other keys, among them the keys the script sets itself
PPSteps ==
    {[key |-> "EmbedThumbnail"], [key |-> "FFmpegMetadata", add_metadata |-> TRUE]}

PPLists == UNION {[1..k -> PPSteps] : k \in 0..MaxPP}

Restrict(f, K) == [k \in K |-> f[k]]

DefaultsSet ==
    {Restrict(Merge(CliDefaults,
                    [format |-> "worstaudio", outtmpl |-> <<"%(title)s">>,
                     postprocessors |-> pps]), K) :
        pps \in PPLists,
        K \in SUBSET {"fragment_retries", "ignoreerrors", "retries",
                      "warn_when_outdated", "format", "outtmpl", "postprocessors"}}

\* The assembly statement alone, on any reliability defaults
InitMerge ==
    /\ dirKind = "dir"
    /\ parentWritable = TRUE
    /\ files0 = {}
    /\ files = files0
    /\ argv = [p \in Procs |-> IF p = 1 THEN <<"video">> ELSE <<>>]
    /\ pc = [p \in Procs |-> IF p = 1 THEN "assemble" ELSE "idle"]
    /\ exit_status = [p \in Procs |-> -1]
    /\ youtube_url = [p \in Procs |-> IF p = 1 THEN "video" ELSE NoneUrl]
    /\ cli_defaults \in {d \in [Procs -> DefaultsSet] : d[2] = CliDefaults}
    /\ defaults0 = cli_defaults
    /\ InitRest

\* One invocation
Init ==
    /\ InitFs
    /\ argv \in {a \in [Procs -> Argvs] : a[2] = <<>>}
    /\ InitProc({1})

-----------------------------------------------------------------------------
(* The script, statement by statement *)

\* line 7: args = parser.parse_args(); line 9: youtube_url = args.url
ParseArgs(p) ==
    /\ pc[p] = "parse_args"
    /\ IF ParseOk(argv[p])
       THEN /\ youtube_url' = [youtube_url EXCEPT ![p] = ArgsUrl(argv[p])]
            /\ pc' = [pc EXCEPT ![p] = "makedirs"]
            /\ UNCHANGED exit_status
       ELSE /\ pc' = [pc EXCEPT ![p] = "done"]
            /\ exit_status' = [exit_status EXCEPT ![p] = ParseExit(argv[p])]
            /\ UNCHANGED youtube_url
    /\ UNCHANGED <<dirKind, parentWritable, files, files0, argv, cli_defaults,
                   ydl_opts, engine, created, added, merges, prev_opts, defaults0>>

\* line 12: os.makedirs(OUTPUT_DIRECTORY, exist_ok=True)
MakeDirs(p) ==
    /\ pc[p] = "makedirs"
    /\ LET r == makedirs(dirKind, parentWritable)
       IN  /\ dirKind' = r.kind
           /\ created' = [created EXCEPT ![p] = (dirKind = "absent" /\ r.kind = "dir")]
           /\ IF r.err = "none"
              THEN /\ pc' = [pc EXCEPT ![p] = "assemble"]
                   /\ UNCHANGED exit_status
              ELSE /\ pc' = [pc EXCEPT ![p] = "done"]
                   /\ exit_status' = [exit_status EXCEPT ![p] = 1]
    /\ UNCHANGED <<parentWritable, files, files0, argv, youtube_url, cli_defaults,
                   ydl_opts, engine, added, merges, prev_opts, defaults0>>

\* lines 14-36: cli_defaults = {...}; ydl_opts = {**cli_defaults, ...}
Assemble(p) ==
    /\ pc[p] = "assemble"
    /\ LET r == AssembleStep(cli_defaults[p])
       IN  /\ ydl_opts' = [ydl_opts EXCEPT ![p] = r.opts]
           /\ cli_defaults' = [cli_defaults EXCEPT ![p] = r.defaults]
    /\ prev_opts' = [prev_opts EXCEPT ![p] = ydl_opts[p]]
    /\ merges' = [merges EXCEPT ![p] = @ + 1]
    /\ pc' = [pc EXCEPT ![p] = "enter"]
    /\ UNCHANGED <<dirKind, parentWritable, files, files0, argv, exit_status,
                   youtube_url, engine, created, added, defaults0>>

\* line 38: with yt_dlp.YoutubeDL(ydl_opts) as ydl
EnterWith(p) ==
    /\ pc[p] = "enter"
    /\ engine' = [engine EXCEPT ![p].scope = "acquired"]
    /\ pc' = [pc EXCEPT ![p] = "download"]
    /\ UNCHANGED <<dirKind, parentWritable, files, files0, argv, exit_status,
                   youtube_url, cli_defaults, ydl_opts, created, added, merges,
                   prev_opts, defaults0>>

\* line 39: ydl.download([youtube_url])
Download(p) ==
    /\ pc[p] = "download"
    /\ engine' = [engine EXCEPT ![p].calls = Append(@, DownloadArgs(youtube_url[p]))]
    /\ pc' = [pc EXCEPT ![p] = "extract"]
    /\ UNCHANGED <<dirKind, parentWritable, files, files0, argv, exit_status,
                   youtube_url, cli_defaults, ydl_opts, created, added, merges,
                   prev_opts, defaults0>>

\* the engine resolves the URL's metadata: a fatal error, or the entries
EngineExtract(p) ==
    /\ pc[p] = "extract"
    /\ \/ /\ engine' = [engine EXCEPT ![p].outcome = "raised", ![p].error = "metadata"]
          /\ pc' = [pc EXCEPT ![p] = "exit_with"]
       \/ \E es \in EntriesOf(engine[p].calls[1][1]) :
             /\ engine' = [engine EXCEPT ![p].entries = es]
             /\ pc' = [pc EXCEPT ![p] = "items"]
    /\ UNCHANGED <<dirKind, parentWritable, files, files0, argv, exit_status,
                   youtube_url, cli_defaults, ydl_opts, created, added, merges,
                   prev_opts, defaults0>>

\* the engine downloads and transcodes the next entry, or fails on it
EngineItem(p) ==
    /\ pc[p] = "items"
    /\ Len(engine[p].results) < Len(engine[p].entries)
    /\ LET idx  == Len(engine[p].results) + 1
           meta == engine[p].entries[idx]
           path == OutPath(ydl_opts[p], meta)
       IN  \/ /\ files' = files \cup {path}
              /\ added' = [added EXCEPT ![p] = @ \cup {path}]
              /\ engine' = [engine EXCEPT ![p].results = Append(@, "ok"),
                                          ![p].outputs = @ \cup {<<idx, path>>}]
              /\ UNCHANGED pc
           \/ /\ IF Tolerates(ydl_opts[p])
                 THEN /\ engine' = [engine EXCEPT ![p].results = Append(@, "failed")]
                      /\ UNCHANGED pc
                 ELSE /\ engine' = [engine EXCEPT ![p].results = Append(@, "failed"),
                                                  ![p].outcome = "raised",
                                                  ![p].error = "item"]
                      /\ pc' = [pc EXCEPT ![p] = "exit_with"]
              /\ UNCHANGED <<files, added>>
    /\ UNCHANGED <<dirKind, parentWritable, files0, argv, exit_status,
                   youtube_url, cli_defaults, ydl_opts, created, merges, prev_opts,
                   defaults0>>

\* the engine has gone through every entry: download returns
EngineReturn(p) ==
    /\ pc[p] = "items"
    /\ Len(engine[p].results) = Len(engine[p].entries)
    /\ engine' = [engine EXCEPT ![p].outcome = "returned"]
    /\ pc' = [pc EXCEPT ![p] = "exit_with"]
    /\ UNCHANGED <<dirKind, parentWritable, files, files0, argv, exit_status,
                   youtube_url, cli_defaults, ydl_opts, created, added, merges,
                   prev_opts, defaults0>>

\* the with block ends: __exit__, then the interpreter exits
ExitWith(p) ==
    /\ pc[p] = "exit_with"
    /\ engine' = [engine EXCEPT ![p].scope =
                     IF ReleasedOn(engine[p].outcome) THEN "released" ELSE @]
    /\ exit_status' = [exit_status EXCEPT ![p] = ExitStatusOf(engine[p].outcome)]
    /\ pc' = [pc EXCEPT ![p] = "done"]
    /\ UNCHANGED <<dirKind, parentWritable, files, files0, argv, youtube_url,
                   cli_defaults, ydl_opts, created, added, merges, prev_opts, defaults0>>

Next ==
    \E p \in Procs :
        \/ ParseArgs(p)
        \/ MakeDirs(p)
        \/ Assemble(p)
        \/ EnterWith(p)
        \/ Download(p)
        \/ EngineExtract(p)
        \/ EngineItem(p)
        \/ EngineReturn(p)
        \/ ExitWith(p)

Spec == Init /\ [][Next]_vars

SpecConc == InitConc /\ [][Next]_vars

\* The assembly statement executed again on the same cli_defaults
Reassemble(p) ==
    /\ pc[p] = "enter"
    /\ merges[p] < 2
    /\ pc' = [pc EXCEPT ![p] = "assemble"]
    /\ UNCHANGED <<dirKind, parentWritable, files, files0, argv, exit_status,
                   youtube_url, cli_defaults, ydl_opts, engine, created, added,
                   merges, prev_opts, defaults0>>

NextMerge ==
    \E p \in Procs :
        \/ Assemble(p)
        \/ Reassemble(p)

SpecMerge == InitMerge /\ [][NextMerge]_vars

-----------------------------------------------------------------------------
(* Properties *)

\* C1: an invocation without a URL argument never gets past the argument
\* parser: it creates no directory, never acquires the engine or calls its
\* download, writes no file, and ends with a non-zero exit status.
C1_NoUrlFailsBeforeAnyEffect ==
    \A p \in Procs :
        (pc[p] # "idle" /\ Len(argv[p]) = 0) =>
            /\ pc[p] \in {"parse_args", "done"}
            /\ ~created[p]
            /\ engine[p].scope = "none"
            /\ engine[p].calls = <<>>
            /\ added[p] = {}
            /\ files = files0
            /\ (pc[p] = "done" => exit_status[p] \notin {-1, 0})

C1_Witness ==
    /\ argv[1] = <<>>
    /\ pc[1] = "done"
    /\ exit_status[1] = 2
    /\ dirKind = "absent"
    /\ parentWritable

\* C2: download is called at most once, with the list of the one URL of the
\* command line, never while the directory is missing, never after a failed
\* makedirs, and exactly once by the end of a run that passed the parser and
\* makedirs.
C2_OneDownloadAfterDirectory ==
    \A p \in Procs :
        LET failedMkdir == pc[p] = "done" /\ exit_status[p] = 1
                           /\ engine[p].scope = "none"
        IN  /\ Len(engine[p].calls) <= 1
            /\ engine[p].calls # <<>> =>
                  /\ Len(argv[p]) = 1
                  /\ engine[p].calls[1] = <<argv[p][1]>>
                  /\ dirKind = "dir"
            /\ pc[p] \in {"download", "extract", "items", "exit_with"} => dirKind = "dir"
            /\ failedMkdir => engine[p].calls = <<>>
            /\ (pc[p] = "done" /\ Len(argv[p]) = 1 /\ argv[p][1] \in URLs
                    /\ ~failedMkdir) =>
                  Len(engine[p].calls) = 1

C2_Witness ==
    /\ pc[1] = "done"
    /\ created[1]
    /\ engine[1].calls = << <<"playlist">> >>

\* C3: a run whose engine failed fatally while resolving metadata ends with a
\* non-zero exit status and has written no file.
C3_FatalMetadataError ==
    \A p \in Procs :
        (pc[p] = "done" /\ engine[p].error = "metadata") =>
            /\ exit_status[p] \notin {-1, 0}
            /\ added[p] = {}
            /\ engine[p].outputs = {}
            /\ files = files0

C3_Witness ==
    /\ pc[1] = "done"
    /\ engine[1].error = "metadata"
    /\ exit_status[1] = 1
    /\ files0 # {}

\* C4: a failed item never ends the engine's pass over the entries; a playlist
\* run with failed and succeeded items ends with status 0, with the file
\* downloads/<uploader> - <title>.mp3 of every succeeded item on disk and no
\* file written for a failed item.
C4_PartialPlaylistSuccess ==
    \A p \in Procs :
        LET e == engine[p]
            n == Len(e.results)
            failed == {i \in 1..n : e.results[i] = "failed"}
            ok == {i \in 1..n : e.results[i] = "ok"}
            file(i) == <<"downloads", "/", e.entries[i].uploader, " - ",
                         e.entries[i].title, ".", "mp3">>
        IN  /\ failed # {} =>
                  /\ e.outcome # "raised"
                  /\ pc[p] = "items" \/ n = Len(e.entries)
            /\ (pc[p] = "done" /\ youtube_url[p] = "playlist"
                    /\ failed # {} /\ ok # {}) =>
                  /\ exit_status[p] = 0
                  /\ n = Len(e.entries)
                  /\ \A i \in ok : file(i) \in files /\ <<i, file(i)>> \in e.outputs
                  /\ \A i \in failed : \A o \in e.outputs : o[1] # i

C4_Witness ==
    /\ pc[1] = "done"
    /\ youtube_url[1] = "playlist"
    /\ engine[1].results = <<"failed", "ok">>
    /\ exit_status[1] = 0
    /\ Cardinality(added[1]) = 1

\* C5: whatever the reliability defaults, the assembled 'postprocessors' is the
\* FFmpegExtractAudio/mp3/0 step followed by the defaults' steps in order.
C5_MandatoryStepFirstDefaultsKept ==
    \A p \in Procs :
        merges[p] >= 1 =>
            LET dpp == Get(defaults0[p], "postprocessors", <<>>)
            IN  /\ "postprocessors" \in DOMAIN ydl_opts[p]
                /\ Len(ydl_opts[p]["postprocessors"]) = Len(dpp) + 1
                /\ ydl_opts[p]["postprocessors"][1] =
                       [key |-> "FFmpegExtractAudio", preferredcodec |-> "mp3",
                        preferredquality |-> "0"]
                /\ \A i \in 1..Len(dpp) : ydl_opts[p]["postprocessors"][i + 1] = dpp[i]

C5_Witness ==
    /\ merges[1] = 1
    /\ "postprocessors" \in DOMAIN defaults0[1]
    /\ Len(defaults0[1]["postprocessors"]) = 2
    /\ defaults0[1]["postprocessors"][1] # defaults0[1]["postprocessors"][2]
    /\ Len(ydl_opts[1]["postprocessors"]) = 3

\* C6: in the assembled configuration 'format', 'postprocessors' and 'outtmpl'
\* have the values the script writes, also when the defaults define them; every
\* other key of the defaults keeps the defaults' value, and there is no other key.
C6_SettingsWinDefaultsKept ==
    \A p \in Procs :
        merges[p] >= 1 =>
            LET o == ydl_opts[p]
                d == defaults0[p]
                set == {"format", "postprocessors", "outtmpl"}
            IN  /\ DOMAIN o = (DOMAIN d) \cup set
                /\ o["format"] = "bestaudio/best"
                /\ o["outtmpl"] = <<"downloads", "/", "%(uploader)s", " - ",
                                    "%(title)s", ".", "%(ext)s">>
                /\ o["postprocessors"] =
                       <<[key |-> "FFmpegExtractAudio", preferredcodec |-> "mp3",
                          preferredquality |-> "0"]>>
                       \o (IF "postprocessors" \in DOMAIN d
                           THEN d["postprocessors"] ELSE <<>>)
                /\ \A k \in (DOMAIN d) \ set : o[k] = d[k]

C6_Witness ==
    /\ merges[1] = 1
    /\ DOMAIN defaults0[1] = {"format", "outtmpl", "postprocessors", "retries",
                              "ignoreerrors"}
    /\ defaults0[1]["format"] = "worstaudio"
    /\ ydl_opts[1]["format"] = "bestaudio/best"
    /\ ydl_opts[1]["retries"] = 10

\* C7: the assembly leaves cli_defaults as it was, and assembling a second time
\* gives the configuration of the first time.
C7_AssemblyRepeatable ==
    \A p \in Procs :
        /\ cli_defaults[p] = defaults0[p]
        /\ merges[p] = 2 => ydl_opts[p] = prev_opts[p]

C7_Witness ==
    /\ merges[1] = 2
    /\ "postprocessors" \in DOMAIN defaults0[1]
    /\ Len(ydl_opts[1]["postprocessors"]) = 2
    /\ ydl_opts[1] = prev_opts[1]

\* C8: the makedirs step on an existing directory raises nothing and leaves the
\* directory and its files as they are; on an absent path it creates the
\* directory unless the working directory forbids it; it never touches a file;
\* and makedirs on the state a successful makedirs leaves changes nothing.
C8_MakedirsIdempotent ==
    [][\A p \in Procs :
          MakeDirs(p) =>
              /\ files' = files
              /\ dirKind = "dir" =>
                    /\ dirKind' = "dir"
                    /\ pc'[p] = "assemble"
                    /\ exit_status'[p] = -1
              /\ (dirKind = "absent" /\ parentWritable) =>
                    /\ dirKind' = "dir"
                    /\ pc'[p] = "assemble"
              /\ pc'[p] = "assemble" =>
                    /\ dirKind' = "dir"
                    /\ makedirs(dirKind', parentWritable') =
                           [kind |-> dirKind', err |-> "none"]]_vars

C8_Witness ==
    /\ pc[1] = "assemble"
    /\ pc[2] = "assemble"
    /\ ~created[1]
    /\ ~created[2]
    /\ files0 # {}
    /\ files = files0
    /\ dirKind = "dir"

\* C9: the engine runs only inside the acquired scope, and a finished run that
\* acquired the engine has released it, whether download returned or raised.
C9_ScopedEngine ==
    \A p \in Procs :
        /\ pc[p] \in {"download", "extract", "items", "exit_with"} =>
              engine[p].scope = "acquired"
        /\ engine[p].calls # <<>> => engine[p].scope # "none"
        /\ pc[p] = "done" =>
              /\ engine[p].scope \in {"none", "released"}
              /\ engine[p].outcome # "none" => engine[p].scope = "released"
              /\ engine[p].scope = "none" => engine[p].outcome = "none"

C9_Witness ==
    /\ pc[1] = "done"
    /\ engine[1].outcome = "raised"
    /\ engine[1].scope = "released"

\* C10: of two invocations in one working directory neither fails at makedirs
\* because the other created the directory, and items with the same uploader
\* and title that both downloaded were written to one and the same path.
C10_UncoordinatedInvocations ==
    LET failedMkdir(p) == pc[p] = "done" /\ exit_status[p] = 1
                          /\ engine[p].scope = "none"
        ok(p) == {i \in 1..Len(engine[p].results) : engine[p].results[i] = "ok"}
    IN  /\ dirKind = "dir" => \A p \in Procs : ~failedMkdir(p)
        /\ \A p \in Procs :
              pc[p] \in {"assemble", "enter", "download", "extract", "items",
                         "exit_with"} => dirKind = "dir"
        /\ \A p, q \in Procs : \A i \in ok(p) : \A j \in ok(q) :
              (/\ p # q
               /\ engine[p].entries[i].uploader = engine[q].entries[j].uploader
               /\ engine[p].entries[i].title = engine[q].entries[j].title) =>
                  \E f \in added[p] \cap added[q] :
                      <<i, f>> \in engine[p].outputs /\ <<j, f>> \in engine[q].outputs

C10_Witness ==
    /\ pc[1] = "done"
    /\ pc[2] = "done"
    /\ exit_status[1] = 0
    /\ exit_status[2] = 0
    /\ created[2]
    /\ ~created[1]
    /\ added[1] \cap added[2] # {}

=============================================================================
